---- MODULE Spec2Model ----
(***************************************************************************)
(* Ultrasonic ranging, velocity estimation and time-to-collision decision  *)
(* loop of the animal_classifier repository (main.py, old.py,              *)
(* realfinalnocap.py, gem.py, speedtest.py) and the token protocol of the  *)
(* classifier scripts (animal_detector.py, ani_det.py).                    *)
(*                                                                         *)
(* Units: time in milliseconds, distance in quarter millimetres, so that   *)
(* an echo of d ms is the distance 686 * d and the mean of two distances   *)
(* is an integer.  Speeds and times-to-reach are exact rationals;          *)
(* floating-point rounding is not modelled.                                *)
(***************************************************************************)
EXTENDS Integers, Sequences, FiniteSets, TLC

VARIABLES
    \* ---- one call of measure_distance, polled tick by tick ----
    md_prog,      \* which script's measure_distance runs
    md_pc,        \* "idle" | "wait_high" | "wait_low" | "done"
    now,          \* time.monotonic(), ms since the trigger pulse
    md_deadline,  \* the deadline the current busy-wait loop compares against
    md_t0,        \* t0, the clock reading when the echo was seen high
    md_ret,       \* the returned value (None or a distance)
    echo_rise,    \* the echo line's behaviour: ms after the trigger when it rises
    echo_high,    \* ... and for how many ms it stays high (Never: it stays high)
    \* ---- the polling loop of main.py / old.py / realfinalnocap.py ----
    prog,             \* which script runs
    pc,               \* "poll" | "classify" | "estimate" | "car" | "dual_sleep" | "alert" | "exited"
    exc,              \* the exception that ended the loop (None while it runs)
    prev_d1,          \* MotionState: the previous reading of USS1
    d1,               \* the reading of USS1 of this iteration
    motion_detected,
    clf_calls,        \* subprocess.check_output calls of this iteration
    clf_outcome,      \* what happened to the classifier run of this iteration
    result,           \* the decoded, stripped, lowered stdout (None: the call raised)
    est_calls,        \* measure_speed / measure_speed_dual calls of this iteration
    dual,             \* old.py: the samples <<dist_car_1, dist_ani_1, dist_car_2, dist_ani_2>>
    animal_speed, animal_distance, car_speed, car_distance,
    time_animal, time_car,
    decision,         \* how the iteration ended
    led, buzzer,      \* the levels of LED_PIN and BUZZER_PIN
    cleaned,          \* GPIO.cleanup() has run
    \* ---- one call of the two-point estimator (gem.py, old.py, speedtest.py) ----
    tp_prog,      \* which script's measure_speed / measure_speed_dual runs
    tp_pc,        \* "idle" | "call" | "returned" | "raised"
    tp_samples,   \* <<car_1, ani_1, car_2, ani_2>>: what measure_distance returned
    tp_delay,     \* the delay argument
    tp_slept,     \* ms the clock advanced across time.sleep(...)
    tp_second,    \* ms the clock advanced across the two final measurements
    tp_ret,       \* the returned <<car_speed, ani_speed, car_dist, ani_dist>>
    \* ---- one call of the regression estimator (main.py measure_speed) ----
    rg_pc,        \* "idle" | "call" | "returned"
    rg_ds,        \* what the successive measure_distance calls return
    rg_gap,       \* ms between two successive clock readings ts[i]
    rg_ret,       \* the returned <<speed, last distance>>
    \* ---- the motion gate of the loops, poll after poll ----
    gt_prog,      \* which script's loop runs
    gt_polls,     \* polls so far, counted up to MaxPolls
    gt_before,    \* prev_d1 as the poll found it
    gt_d1,        \* d1, the reading of the poll
    gt_prev_d1,   \* prev_d1
    gt_motion     \* motion_detected

mdvars == <<md_prog, md_pc, now, md_deadline, md_t0, md_ret, echo_rise, echo_high>>

gatevars == <<prev_d1, d1, motion_detected>>
clfvars == <<clf_calls, clf_outcome, result>>
estvars == <<est_calls, dual, animal_speed, animal_distance, car_speed, car_distance,
             time_animal, time_car>>
outvars == <<led, buzzer>>
loopvars == <<prog, pc, exc, gatevars, clfvars, estvars, decision, outvars, cleaned>>

tpvars == <<tp_prog, tp_pc, tp_samples, tp_delay, tp_slept, tp_second, tp_ret>>
\* the calls of the estimators taken on their own
rgvars == <<rg_pc, rg_ds, rg_gap, rg_ret>>
gtvars == <<gt_prog, gt_polls, gt_before, gt_d1, gt_prev_d1, gt_motion>>
fnvars == <<tpvars, rgvars, gtvars>>

vars == <<mdvars, loopvars, fnvars>>

\* Python's None is the empty tuple, a value x is <<x>>: an optional number
None == <<>>
Some(x) == <<x>>
Val(o) == o[1]
\* an echo edge that never comes
Never == <<>>

\* ---------------------------------------------------------------- constants
ECHO_TIMEOUT == 30          \* 0.03 s
JUNK_DT == 30               \* the literal 0.030 / 0.03 of the final range check
HALF_SPEED_OF_SOUND == 686  \* 343.0 / 2 m/s, in quarter-mm per ms

\* ---------------------------------------------------------------- bounds
MaxOver == 2      \* echo edges are drawn up to ECHO_TIMEOUT + MaxOver ms
MaxClock == 70    \* cap of the modelled clock (beyond every deadline + 1)

MaxEcho == 3       \* the loops' readings are echoes of 1..MaxEcho ms
MaxSpeedEcho == 2  \* the regression estimator's samples are echoes of 1..MaxSpeedEcho ms

\* probabilities the classifier model computes, in tenths
Probs == {3, 5, 7}
\* ms between two samples of measure_speed: sleep(0.035) plus the measurement
SampleGaps == {35, 95}
\* ms between time_1 and time_2 of measure_speed_dual: sleep(0.9) plus two measurements
DualDts == {900, 960}

MeasureProgs == {"main", "gem", "old", "speedtest", "realfinalnocap"}
LoopProgs == {"main", "old", "realfinalnocap"}

\* ------------------------------------------------------- measure_distance
\* return (dt * 343.0) / 2.0
Dist(dt) == dt * HALF_SPEED_OF_SOUND

\* GPIO.input(echo) at clock reading t
EchoLevel(t) ==
    IF echo_rise # Never /\ t >= Val(echo_rise)
        /\ (echo_high = Never \/ t < Val(echo_rise) + Val(echo_high))
    THEN 1 ELSE 0

\* the deadline of the "wait for echo LOW" loop
LowDeadline(p, start, t0) ==
    IF p = "main" THEN start + ECHO_TIMEOUT ELSE t0 + ECHO_TIMEOUT

\* (mutant) the bail-out test forgotten: the loop only ends on the edge
TimedOutNever(t, deadline) == FALSE

\* the bail-out test inside both busy-wait loops
TimedOut(t, deadline) == t > deadline

\* what the call returns once both edges were seen
FinalDistance(p, dt) ==
    IF p = "old" THEN Some(Dist(dt))
    ELSE IF dt <= 0 \/ dt > JUNK_DT THEN None ELSE Some(Dist(dt))

\* trigger pulse; start = time.monotonic(); the echo line's behaviour is the input
Trigger ==
    /\ md_pc = "idle"
    /\ \E r \in {Some(x) : x \in 0..(ECHO_TIMEOUT + MaxOver)} \cup {Never},
          h \in {Some(x) : x \in 1..(ECHO_TIMEOUT + MaxOver)} \cup {Never} :
          /\ echo_rise' = r
          /\ echo_high' = IF r = Never THEN Never ELSE h
    /\ now' = 0
    /\ md_deadline' = 0 + ECHO_TIMEOUT
    /\ md_t0' = None
    /\ md_ret' = None
    /\ md_pc' = "wait_high"
    /\ UNCHANGED <<md_prog, loopvars, fnvars>>

\* one iteration of: while GPIO.input(echo) == 0: if monotonic() > timeout: return None
\* (the monotonic clock advances by one tick from one poll to the next)
WaitHighPoll ==
    /\ md_pc = "wait_high"
    /\ now < MaxClock
    /\ IF EchoLevel(now) = 0
       THEN /\ md_pc' = IF TimedOut(now, md_deadline) THEN "done" ELSE "wait_high"
            /\ UNCHANGED <<md_t0, md_deadline>>
       ELSE /\ md_t0' = Some(now)
            /\ md_deadline' = LowDeadline(md_prog, 0, now)
            /\ md_pc' = "wait_low"
    /\ now' = now + 1
    /\ UNCHANGED <<md_prog, md_ret, echo_rise, echo_high, loopvars, fnvars>>

\* one iteration of: while GPIO.input(echo) == 1: if monotonic() > timeout: return None
\* and, once the line is low, t1 = monotonic(); dt = t1 - t0; return
WaitLowPoll ==
    /\ md_pc = "wait_low"
    /\ now < MaxClock
    /\ IF EchoLevel(now) = 1
       THEN /\ md_pc' = IF TimedOut(now, md_deadline) THEN "done" ELSE "wait_low"
            /\ UNCHANGED md_ret
       ELSE /\ md_ret' = FinalDistance(md_prog, now - Val(md_t0))
            /\ md_pc' = "done"
    /\ now' = now + 1
    /\ UNCHANGED <<md_prog, md_t0, md_deadline, echo_rise, echo_high, loopvars, fnvars>>

\* no measure_distance call in progress
MeasureIdle ==
    /\ md_pc = "idle"
    /\ now = 0
    /\ md_deadline = 0
    /\ md_t0 = None
    /\ md_ret = None
    /\ echo_rise = Never
    /\ echo_high = Never

\* the loop before its first iteration: prev_d1 = None, outputs as set up
LoopStart ==
    /\ pc = "poll"
    /\ exc = None
    /\ prev_d1 = None
    /\ d1 = None
    /\ motion_detected = FALSE
    /\ clf_calls = 0
    /\ clf_outcome = None
    /\ result = None
    /\ est_calls = 0
    /\ dual = <<>>
    /\ animal_speed = None
    /\ animal_distance = None
    /\ car_speed = None
    /\ car_distance = None
    /\ time_animal = None
    /\ time_car = None
    /\ decision = "NoCycle"
    /\ led = FALSE
    /\ buzzer = FALSE
    /\ cleaned = FALSE

\* no call of the two-point estimator in progress
TwoPointIdle ==
    /\ tp_prog = "gem"
    /\ tp_pc = "idle"
    /\ tp_samples = <<>>
    /\ tp_delay = 0
    /\ tp_slept = 0
    /\ tp_second = 0
    /\ tp_ret = None

\* no call of the regression estimator in progress
RegressIdle ==
    /\ rg_pc = "idle"
    /\ rg_ds = <<>>
    /\ rg_gap = 0
    /\ rg_ret = None

\* the gate before the first poll: prev_d1 = None
GateStart ==
    /\ gt_prog = "main"
    /\ gt_polls = 0
    /\ gt_before = None
    /\ gt_d1 = None
    /\ gt_prev_d1 = None
    /\ gt_motion = FALSE

\* no estimator is called on its own
FnIdle == TwoPointIdle /\ RegressIdle /\ GateStart

InitMeasure ==
    /\ md_prog \in MeasureProgs
    /\ MeasureIdle
    /\ prog = "main"
    /\ LoopStart
    /\ FnIdle

NextMeasure == Trigger \/ WaitHighPoll \/ WaitLowPoll

SpecMeasure == InitMeasure /\ [][NextMeasure]_vars

\* a busy-wait loop that can run does run
SpecMeasureFair == SpecMeasure /\ WF_vars(WaitHighPoll) /\ WF_vars(WaitLowPoll)

\* ------------------------------------------------------------- rationals
\* Python floats are modelled by exact rationals, kept as mixed numbers
\* <<w, n, d>> = w + n/d with 0 <= n < d and n/d in lowest terms, so that the
\* large times the epsilon speed produces stay within TLC's integers.
RECURSIVE GCD(_, _)
GCD(a, b) == IF b = 0 THEN a ELSE GCD(b, a % b)

Abs(x) == IF x < 0 THEN -x ELSE x

\* n / d for d # 0
Rat(n, d) ==
    LET num == IF d < 0 THEN -n ELSE n
        den == Abs(d)
        w == num \div den
        r == num - w * den
        g == GCD(r, den)
    IN <<w, r \div g, den \div g>>

RatOfInt(n) == <<n, 0, 1>>
\* the numerator of a over its denominator a[3]
Improper(a) == a[1] * a[3] + a[2]
RatSub(a, b) ==
    LET f == Rat(a[2] * b[3] - b[2] * a[3], a[3] * b[3])
    IN <<a[1] - b[1] + f[1], f[2], f[3]>>
RatDiv(a, b) == Rat(Improper(a) * b[3], a[3] * Improper(b))
RatIsZero(a) == a[1] = 0 /\ a[2] = 0
RatIsNeg(a) == a[1] < 0
RatIsPos(a) == ~RatIsZero(a) /\ ~RatIsNeg(a)
RatNeg(a) == IF a[2] = 0 THEN <<-a[1], 0, 1>> ELSE <<-a[1] - 1, a[3] - a[2], a[3]>>
RatAbs(a) == IF RatIsNeg(a) THEN RatNeg(a) ELSE a
RatLess(a, b) == a[1] < b[1] \/ (a[1] = b[1] /\ a[2] * b[3] < b[2] * a[3])

\* ---------------------------------------------------- decision constants
CRITICAL_TIME_DIFF == 1000      \* 1.0 s
CONVERGENCE_OFFSET == 240       \* the literal 0.06 m
MOTION_THRESHOLD == 20          \* 0.005 m
MOTION_RANGE_MAIN == 200000     \* main.py: d1 < 50
MOTION_RANGE == 2000            \* old.py, realfinalnocap.py: d1 < 0.50
EPSILON_SPEED_DEN == 25000      \* 0.00001 m/s = 1/25000 quarter-mm per ms
MISSING_DISTANCE == 4000        \* the magnitude of the fallback distance -1 m
NSAMPLES == 6                   \* measure_speed(samples=6)
MEDIAN_RADIUS == 2              \* k = 2

EpsilonSpeed == Rat(1, EPSILON_SPEED_DEN)

\* ------------------------------------------------------------ motion gate
MotionRange(p) == IF p = "main" THEN MOTION_RANGE_MAIN ELSE MOTION_RANGE

\* if prev_d1 is not None and d1 is not None and d1 < RANGE:
\*     if abs(d1 - prev_d1) > MOTION_THRESHOLD: motion_detected = True
MotionDetected(p, prev, cur) ==
    /\ prev # None
    /\ cur # None
    /\ Val(cur) < MotionRange(p)
    /\ Abs(Val(cur) - Val(prev)) > MOTION_THRESHOLD

\* ------------------------------------------- two-point estimator (old.py)
\* one channel of measure_speed_dual: <<speed, final distance>>
DualChannel(dist_1, dist_2, actual_dt) ==
    IF dist_1 # None /\ dist_2 # None
    THEN <<Rat(Val(dist_1) - Val(dist_2), actual_dt), Val(dist_2)>>
    ELSE <<EpsilonSpeed, IF dist_2 # None THEN Val(dist_2) ELSE -MISSING_DISTANCE>>

\* (mutant) the previous distance kept unless motion fired
StorePreviousOnMotion(prev, cur, motion) == IF motion THEN cur ELSE prev

\* prev_d1 = d1, after the gate and whatever it decided
StorePrevious(prev, cur, motion) == cur

\* ------------------------------------------- the motion gate on its own
MaxPolls == 2   \* gt_polls stops counting at MaxPolls

\* what measure_distance(USS1) returns to the gate:
\* None, 0.30 m, 0.3975 m, 0.40 m, 0.49 m, 0.50 m, 1.2 m
GateReadings == {None} \cup {Some(d) : d \in {1200, 1590, 1600, 1960, 2000, 4800}}

\* Step 1 of an iteration: d1 = measure_distance(...), the gate, prev_d1 = d1
GatePoll ==
    /\ gt_d1' \in GateReadings
    /\ gt_motion' = MotionDetected(gt_prog, gt_prev_d1, gt_d1')
    /\ gt_prev_d1' = StorePrevious(gt_prev_d1, gt_d1', gt_motion')
    /\ gt_before' = gt_prev_d1
    /\ gt_polls' = IF gt_polls < MaxPolls THEN gt_polls + 1 ELSE gt_polls
    /\ UNCHANGED <<gt_prog, tpvars, rgvars, mdvars, loopvars>>

InitGate ==
    /\ gt_prog \in LoopProgs
    /\ gt_polls = 0
    /\ gt_before = None
    /\ gt_d1 = None
    /\ gt_prev_d1 = None
    /\ gt_motion = FALSE
    /\ TwoPointIdle
    /\ RegressIdle
    /\ md_prog = "main"
    /\ MeasureIdle
    /\ prog = "main"
    /\ LoopStart

NextGate == GatePoll

SpecGate == InitGate /\ [][NextGate]_vars

\* ------------- two-point estimator (gem.py, old.py, speedtest.py), one call
SPEEDTEST_SLEEP == 1200     \* time.sleep(1.2)

TwoPointProgs == {"gem", "old", "speedtest", "realfinalnocap"}
\* what measure_distance returns to the estimator: None, 0.343 m, 4.10 m, 5.00 m
SampleDistances == {None, Some(Dist(2)), Some(16400), Some(20000)}
\* the delay argument, ms (0.9 s is what the callers pass)
Delays == {0, 900}
\* ms by which time.sleep overshoots
SleepOvershoots == {0, 100}
\* ms the two final measure_distance calls take
SecondMeasurements == {1, 60}

\* the argument of time.sleep: speedtest.py sleeps 1.2 s whatever the delay
SleepArgument(p, delay) == IF p = "speedtest" THEN SPEEDTEST_SLEEP ELSE delay

\* (mutant) the nominal delay instead of the clock
ActualDtNominal(p, slept, second) == tp_delay

\* actual_dt: gem.py reads the clock just before and just after the sleep
\* (t_end - t_start); old.py and speedtest.py read it after the initial and
\* after the final measurements (time_2 - time_1)
ActualDt(p, slept, second) ==
    IF p \in {"gem", "realfinalnocap"} THEN slept ELSE slept + second

\* the else branches: speed 0.0 (old.py: 0.00001), distance 0.0 (old.py, speedtest.py: -1)
FallbackSpeed(p) == IF p = "old" THEN EpsilonSpeed ELSE RatOfInt(0)
FallbackDistance(p) == IF p \in {"old", "speedtest"} THEN -MISSING_DISTANCE ELSE 0

\* speed and final distance of one channel
TwoPointChannel(p, d_1, d_2, actual_dt) ==
    IF p = "old" THEN DualChannel(d_1, d_2, actual_dt)
    ELSE IF d_1 # None /\ d_2 # None
    THEN <<Rat(Val(d_1) - Val(d_2), actual_dt), Val(d_2)>>
    ELSE <<FallbackSpeed(p), IF d_2 # None THEN Val(d_2) ELSE FallbackDistance(p)>>

\* the whole call: both channels are computed, the car's first; the division
\* (d_1 - d_2) / actual_dt raises ZeroDivisionError when actual_dt is 0
TwoPointCall ==
    /\ tp_pc = "call"
    /\ LET actual_dt == ActualDt(tp_prog, tp_slept, tp_second)
           divides == \E ch \in 1..2 : tp_samples[ch] # None /\ tp_samples[ch + 2] # None
       IN IF divides /\ actual_dt = 0
          THEN /\ tp_pc' = "raised"
               /\ tp_ret' = None
          ELSE LET car == TwoPointChannel(tp_prog, tp_samples[1], tp_samples[3], actual_dt)
                   ani == TwoPointChannel(tp_prog, tp_samples[2], tp_samples[4], actual_dt)
               IN /\ tp_ret' = <<car[1], ani[1], Some(car[2]), Some(ani[2])>>
                  /\ tp_pc' = "returned"
    /\ UNCHANGED <<tp_prog, tp_samples, tp_delay, tp_slept, tp_second, rgvars, gtvars, mdvars, loopvars>>

\* the estimator is called with a delay; the four samples and the clock are
\* what the environment gives it
InitTwoPoint ==
    /\ tp_prog \in TwoPointProgs
    /\ tp_pc = "call"
    /\ tp_samples \in [1..4 -> SampleDistances]
    /\ tp_delay \in Delays
    /\ tp_slept \in {SleepArgument(tp_prog, tp_delay) + o : o \in SleepOvershoots}
    /\ tp_second \in SecondMeasurements
    /\ tp_ret = None
    /\ RegressIdle
    /\ GateStart
    /\ md_prog = "main"
    /\ MeasureIdle
    /\ prog = "main"
    /\ LoopStart

NextTwoPoint == TwoPointCall

SpecTwoPoint == InitTwoPoint /\ [][NextTwoPoint]_vars

\* ----------------------------------------- regression estimator (main.py)
RECURSIVE SumSeq(_)
SumSeq(s) == IF s = <<>> THEN 0 ELSE Head(s) + SumSeq(Tail(s))

Min2(a, b) == IF a < b THEN a ELSE b
Max2(a, b) == IF a > b THEN a ELSE b

\* the k-th smallest element of the window w (sorted(w)[k-1])
Kth(w, k) ==
    CHOOSE x \in {w[i] : i \in 1..Len(w)} :
        /\ Cardinality({i \in 1..Len(w) : w[i] < x}) < k
        /\ Cardinality({i \in 1..Len(w) : w[i] <= x}) >= k

\* statistics.median: the middle element, or the mean of the two middle ones
Median(w) ==
    LET n == Len(w)
    IN IF n % 2 = 1 THEN Kth(w, (n + 1) \div 2)
       ELSE (Kth(w, n \div 2) + Kth(w, n \div 2 + 1)) \div 2

\* smoothed[i] = median(ds[max(0, i-k) : min(len, i+k+1)])
MedianSmooth(ds) ==
    [i \in 1..Len(ds) |->
        Median(SubSeq(ds, Max2(1, i - MEDIAN_RADIUS), Min2(Len(ds), i + MEDIAN_RADIUS)))]

\* the least-squares slope of ys over xs, and ys[-1]; <<0.0, ys[-1]>> when denom == 0
Regress(xs, ys) ==
    LET n == Len(xs)
        sumx == SumSeq(xs)
        sumy == SumSeq(ys)
        sumxy == SumSeq([i \in 1..n |-> xs[i] * ys[i]])
        sumx2 == SumSeq([i \in 1..n |-> xs[i] * xs[i]])
        denom == n * sumx2 - sumx * sumx
    IN IF denom = 0 THEN <<RatOfInt(0), Some(ys[n])>>
       ELSE <<Rat(n * sumxy - sumx * sumy, denom), Some(ys[n])>>

\* measure_speed(trig, echo): ds are the readings of the successive
\* measure_distance calls, ts the clock readings taken after each;
\* the first invalid reading ends the call with (0.0, None)
MeasureSpeed(ds, ts) ==
    IF \E i \in 1..Len(ds) : ds[i] = None
    THEN <<RatOfInt(0), None>>
    ELSE Regress([i \in 1..Len(ts) |-> ts[i] - ts[1]],
                 MedianSmooth([i \in 1..Len(ds) |-> Val(ds[i])]))

\* ------------------------------------------------------- crash prediction
\* time_animal = (animal_distance - 0.06) / animal_speed, for a non-zero speed
TimeAnimal(distance, speed) ==
    RatDiv(RatOfInt(distance - CONVERGENCE_OFFSET), speed)

\* time_car = car_distance / car_speed, for a non-zero speed
TimeCar(distance, speed) == RatDiv(RatOfInt(distance), speed)

\* (mutant) the absolute value forgotten
CrashPredictedSigned(t_animal, t_car) ==
    RatLess(RatSub(t_animal, t_car), RatOfInt(CRITICAL_TIME_DIFF))

\* delta_t = abs(time_animal - time_car); if delta_t < CRITICAL_TIME_DIFF: alert()
CrashPredicted(t_animal, t_car) ==
    RatLess(RatAbs(RatSub(t_animal, t_car)), RatOfInt(CRITICAL_TIME_DIFF))

\* ------------------------------------------------------------ classifier
\* Text is a tuple of characters.  Of the spawned script's stdout the model
\* keeps the lines that print the verdict; the progress lines before them hold
\* no underscore followed by "animal".
UPPER ==
    <<"A", "B", "C", "D", "E", "F", "G", "H", "I", "J", "K", "L", "M", "N", "O", "P", "Q", "R",
      "S", "T", "U", "V", "W", "X", "Y", "Z">>
LOWER ==
    <<"a", "b", "c", "d", "e", "f", "g", "h", "i", "j", "k", "l", "m", "n", "o", "p", "q", "r",
      "s", "t", "u", "v", "w", "x", "y", "z">>

\* str.lower()
LowerChar(c) ==
    IF \E i \in 1..Len(UPPER) : UPPER[i] = c
    THEN LOWER[CHOOSE i \in 1..Len(UPPER) : UPPER[i] = c]
    ELSE c
LowerText(t) == [i \in 1..Len(t) |-> LowerChar(t[i])]

\* str.strip()
IsSpace(c) == c \in {" ", "\n"}
RECURSIVE LStrip(_)
LStrip(t) == IF t # <<>> /\ IsSpace(Head(t)) THEN LStrip(Tail(t)) ELSE t
RECURSIVE RStrip(_)
RStrip(t) ==
    IF t # <<>> /\ IsSpace(t[Len(t)]) THEN RStrip(SubSeq(t, 1, Len(t) - 1)) ELSE t
StripText(t) == RStrip(LStrip(t))

\* needle in hay
Contains(hay, needle) ==
    \E i \in 1..(Len(hay) - Len(needle) + 1) :
        SubSeq(hay, i, i + Len(needle) - 1) = needle

\* the literal "no_animal" of the loops
NO_ANIMAL ==
    <<"n", "o", "_", "a", "n", "i", "m", "a", "l">>

\* animal_detector.py: print("... Animal detected!") / print("... No animal detected.")
DETECTOR_ANIMAL ==
    <<"(check)", " ", "A", "n", "i", "m", "a", "l", " ", "d", "e", "t", "e", "c", "t", "e",
      "d", "!", "\n">>
DETECTOR_NO_ANIMAL ==
    <<"(cross)", " ", "N", "o", " ", "a", "n", "i", "m", "a", "l", " ", "d", "e", "t", "e",
      "c", "t", "e", "d", ".", "\n">>

\* ani_det.py: print("ANIMAL DETECTED"); print("animal") /
\*             print("NO ANIMAL DETECTED"); print("no_animal")
ANI_DET_ANIMAL ==
    <<"A", "N", "I", "M", "A", "L", " ", "D", "E", "T", "E", "C", "T", "E", "D", "\n", "a",
      "n", "i", "m", "a", "l", "\n">>
ANI_DET_NO_ANIMAL ==
    <<"N", "O", " ", "A", "N", "I", "M", "A", "L", " ", "D", "E", "T", "E", "C", "T", "E", "D",
      "\n", "n", "o", "_", "a", "n", "i", "m", "a", "l", "\n">>

CONFIDENCE_THRESHOLD == 5    \* 0.5, probabilities are in tenths

\* the classifier's own decision: prob > 0.5
IsAnimal(prob) == prob > CONFIDENCE_THRESHOLD

\* the script a loop spawns
ClassifierScript(p) == IF p = "main" THEN "animal_detector.py" ELSE "ani_det.py"

\* What can happen to one run: the spawn fails, the script fails (model file
\* missing, camera error), or the model computes a probability.
Outcomes ==
    {[kind |-> k, prob |-> 0] : k \in {"spawn_failure", "model_missing", "camera_error"}}
    \cup {[kind |-> "inference", prob |-> q] : q \in Probs}

\* One run of a classifier script: its exit status and its stdout.
RunScript(script, outcome) ==
    IF outcome.kind \in {"model_missing", "camera_error"}
    THEN [returncode |-> 1, stdout |-> <<>>]
    ELSE IF script = "animal_detector.py"
    THEN [returncode |-> 0,
          stdout |-> IF IsAnimal(outcome.prob) THEN DETECTOR_ANIMAL ELSE DETECTOR_NO_ANIMAL]
    ELSE [returncode |-> 0,
          stdout |-> IF IsAnimal(outcome.prob) THEN ANI_DET_ANIMAL ELSE ANI_DET_NO_ANIMAL]

\* (mutant) the exit status is not checked, as with subprocess.run(..., check=False)
CheckOutputUnchecked(script, outcome) ==
    IF outcome.kind = "spawn_failure" THEN None
    ELSE Some(LowerText(StripText(RunScript(script, outcome).stdout)))

\* subprocess.check_output([...]).decode().strip().lower(); None stands for the
\* exception (OSError when the spawn fails, CalledProcessError on a non-zero exit)
CheckOutput(script, outcome) ==
    IF outcome.kind = "spawn_failure" THEN None
    ELSE LET run == RunScript(script, outcome)
         IN IF run.returncode # 0 THEN None
            ELSE Some(LowerText(StripText(run.stdout)))

\* (mutant) the negative verdict is never recognised
NoAnimalVerdictNever(text) == FALSE

\* if "no_animal" in result
NoAnimalVerdict(text) == Contains(text, NO_ANIMAL)

\* ------------------------------------------------------------- the loop

\* what measure_distance hands the loop: None or the distance of an echo
Readings == {None} \cup {Some(Dist(k)) : k \in 1..MaxEcho}
SpeedReadings == {None} \cup {Some(Dist(k)) : k \in 1..MaxSpeedEcho}

\* every (speed, distance) one call of measure_speed can return: NSAMPLES
\* readings, the clock read after each, one gap apart
SpeedEstimates ==
    {MeasureSpeed(ds, [i \in 1..NSAMPLES |-> i * gap]) :
        ds \in [1..NSAMPLES -> SpeedReadings], gap \in SampleGaps}

\* ----------------- regression estimator (main.py measure_speed), one call
MaxRate == 1    \* linear inputs change by up to MaxRate ms of echo per sample

\* six samples changing linearly: echoes of start, start + rate, ... ms
LinearSamples(start, rate) ==
    [i \in 1..NSAMPLES |-> Some(Dist(start + rate * (i - 1)))]

\* what the six measure_distance calls return: any mix of None and short
\* echoes, and the linear sequences
RegressSamples ==
    [1..NSAMPLES -> SpeedReadings]
    \cup {LinearSamples(start, rate) :
            start \in (1 + (NSAMPLES - 1) * MaxRate)..(2 + (NSAMPLES - 1) * MaxRate),
            rate \in (-MaxRate)..MaxRate}

\* ms from one ts.append(time.monotonic()) to the next; 0: the clock, which
\* is only non-decreasing, did not advance
RegressGaps == {0} \cup SampleGaps

\* ts: the clock readings, gap ms apart
Timestamps(gap) == [i \in 1..NSAMPLES |-> i * gap]

\* the whole call
RegressCall ==
    /\ rg_pc = "call"
    /\ rg_ret' = MeasureSpeed(rg_ds, Timestamps(rg_gap))
    /\ rg_pc' = "returned"
    /\ UNCHANGED <<rg_ds, rg_gap, tpvars, gtvars, mdvars, loopvars>>

InitRegress ==
    /\ rg_pc = "call"
    /\ rg_ds \in RegressSamples
    /\ rg_gap \in RegressGaps
    /\ rg_ret = None
    /\ TwoPointIdle
    /\ GateStart
    /\ md_prog = "main"
    /\ MeasureIdle
    /\ prog = "main"
    /\ LoopStart

NextRegress == RegressCall

SpecRegress == InitRegress /\ [][NextRegress]_vars

\* ------------------------------------------------------- the polling loop
\* the iteration ends (time.sleep(...); continue, or the end of the body)
EndCycle(how) ==
    /\ pc' = "poll"
    /\ decision' = how
    /\ UNCHANGED <<exc, cleaned>>

\* (mutant) GPIO.cleanup() in the except KeyboardInterrupt block, no finally
ExitCleanupOnInterrupt(e) ==
    /\ pc' = "exited"
    /\ exc' = Some(e)
    /\ cleaned' = (e = "KeyboardInterrupt")
    /\ IF e = "KeyboardInterrupt"
       THEN led' = FALSE /\ buzzer' = FALSE
       ELSE UNCHANGED outvars
    /\ UNCHANGED decision

\* an exception leaves the while loop; finally: GPIO.cleanup()
Exit(e) ==
    /\ pc' = "exited"
    /\ exc' = Some(e)
    /\ cleaned' = TRUE
    /\ led' = FALSE
    /\ buzzer' = FALSE
    /\ UNCHANGED decision

\* alert(): the outputs go high (main.py: LED and buzzer, old.py: buzzer only)
AlertOn ==
    /\ pc' = "alert"
    /\ decision' = "Alert"
    /\ led' = (prog = "main")
    /\ buzzer' = TRUE
    /\ UNCHANGED <<exc, cleaned>>

\* Step 1: d1 = measure_distance(USS1); the motion gate; prev_d1 = d1
Poll ==
    /\ pc = "poll"
    /\ d1' \in Readings
    /\ motion_detected' = MotionDetected(prog, prev_d1, d1')
    /\ prev_d1' = StorePrevious(prev_d1, d1', motion_detected')
    /\ clf_calls' = 0
    /\ clf_outcome' = None
    /\ result' = None
    /\ est_calls' = 0
    /\ dual' = <<>>
    /\ animal_speed' = None
    /\ animal_distance' = None
    /\ car_speed' = None
    /\ car_distance' = None
    /\ time_animal' = None
    /\ time_car' = None
    /\ IF prog = "realfinalnocap"
       THEN led' = FALSE /\ buzzer' = FALSE
       ELSE UNCHANGED outvars
    /\ IF motion_detected'
       THEN pc' = "classify" /\ decision' = "Pending"
       ELSE pc' = "poll" /\ decision' = "NoMotion"
    /\ UNCHANGED <<prog, exc, cleaned, mdvars, fnvars>>

\* Step 2: result = subprocess.check_output(...), except Exception: continue;
\* if "no_animal" in result: continue
Classify ==
    /\ pc = "classify"
    /\ \E o \in Outcomes :
        /\ clf_outcome' = Some(o)
        /\ result' = CheckOutput(ClassifierScript(prog), o)
    /\ clf_calls' = clf_calls + 1
    /\ IF result' = None THEN EndCycle("ClassifierError")
       ELSE IF NoAnimalVerdict(Val(result')) THEN EndCycle("NoAnimal")
       ELSE pc' = "estimate" /\ UNCHANGED <<decision, exc, cleaned>>
    /\ UNCHANGED <<prog, gatevars, estvars, outvars, mdvars, fnvars>>

\* main.py: animal_speed, animal_distance = measure_speed(USS1) and its checks
MeasureAnimal ==
    /\ pc = "estimate"
    /\ prog = "main"
    /\ \E m \in SpeedEstimates :
        /\ animal_speed' = m[1]
        /\ animal_distance' = m[2]
    /\ est_calls' = est_calls + 1
    /\ IF RatIsNeg(animal_speed') \/ animal_distance' = None
       THEN /\ EndCycle("Indeterminate")
            /\ UNCHANGED <<time_animal, outvars>>
       ELSE IF RatIsZero(animal_speed')
       THEN /\ Exit("ZeroDivisionError")
            /\ UNCHANGED time_animal
       ELSE /\ time_animal' = Some(TimeAnimal(Val(animal_distance'), animal_speed'))
            /\ pc' = "car"
            /\ UNCHANGED <<decision, exc, cleaned, outvars>>
    /\ UNCHANGED <<prog, gatevars, clfvars, dual, car_speed, car_distance, time_car, mdvars, fnvars>>

\* main.py: car_speed, car_distance = measure_speed(USS2), time_car, the prediction
MeasureCar ==
    /\ pc = "car"
    /\ \E m \in SpeedEstimates :
        /\ car_speed' = m[1]
        /\ car_distance' = m[2]
    /\ est_calls' = est_calls + 1
    /\ IF car_distance' = None
       THEN /\ EndCycle("Indeterminate")
            /\ UNCHANGED <<time_car, outvars>>
       ELSE IF RatIsZero(car_speed')
       THEN /\ Exit("ZeroDivisionError")
            /\ UNCHANGED time_car
       ELSE /\ time_car' = Some(TimeCar(Val(car_distance'), car_speed'))
            /\ IF CrashPredicted(Val(time_animal), Val(time_car'))
               THEN AlertOn
               ELSE EndCycle("Safe") /\ UNCHANGED outvars
    /\ UNCHANGED <<prog, gatevars, clfvars, dual, animal_speed, animal_distance,
                   time_animal, mdvars, fnvars>>

\* old.py, measure_speed_dual: the initial measurements, then the outputs go
\* high for the time of time.sleep(delay)
DualFirst ==
    /\ pc = "estimate"
    /\ prog = "old"
    /\ \E dist_car_1 \in Readings, dist_ani_1 \in Readings :
        dual' = <<dist_car_1, dist_ani_1>>
    /\ est_calls' = est_calls + 1
    /\ led' = TRUE
    /\ buzzer' = TRUE
    /\ pc' = "dual_sleep"
    /\ UNCHANGED <<prog, exc, cleaned, decision, gatevars, clfvars, animal_speed,
                   animal_distance, car_speed, car_distance, time_animal, time_car, mdvars, fnvars>>

\* old.py: the outputs go low, the final measurements, both speeds; then the
\* loop's time_animal, the car_speed == 0 substitution, time_car, the prediction
DualSecond ==
    /\ pc = "dual_sleep"
    /\ \E dist_car_2 \in Readings, dist_ani_2 \in Readings, actual_dt \in DualDts :
        LET car == DualChannel(dual[1], dist_car_2, actual_dt)
            ani == DualChannel(dual[2], dist_ani_2, actual_dt)
        IN /\ dual' = dual \o <<dist_car_2, dist_ani_2>>
           /\ animal_speed' = ani[1]
           /\ animal_distance' = Some(ani[2])
           /\ car_speed' = IF RatIsZero(car[1]) THEN EpsilonSpeed ELSE car[1]
           /\ car_distance' = Some(car[2])
    /\ IF RatIsZero(animal_speed')
       THEN /\ Exit("ZeroDivisionError")
            /\ UNCHANGED <<time_animal, time_car>>
       ELSE /\ time_animal' = Some(TimeAnimal(Val(animal_distance'), animal_speed'))
            /\ time_car' = Some(TimeCar(Val(car_distance'), car_speed'))
            /\ IF CrashPredicted(Val(time_animal'), Val(time_car'))
               THEN AlertOn
               ELSE EndCycle("Safe") /\ led' = FALSE /\ buzzer' = FALSE
    /\ UNCHANGED <<prog, gatevars, clfvars, est_calls, mdvars, fnvars>>

\* realfinalnocap.py calls measure_speed_dual, which it does not define
UndefinedEstimator ==
    /\ pc = "estimate"
    /\ prog = "realfinalnocap"
    /\ Exit("NameError")
    /\ UNCHANGED <<prog, gatevars, clfvars, estvars, mdvars, fnvars>>

\* (mutant) alert() returns with the outputs left high
AlertOffLatched ==
    /\ pc = "alert"
    /\ pc' = "poll"
    /\ UNCHANGED <<prog, exc, cleaned, decision, gatevars, clfvars, estvars, outvars,
                   mdvars, fnvars>>

\* alert(): after time.sleep(1.0) the outputs go low; time.sleep(0.02)
AlertOff ==
    /\ pc = "alert"
    /\ led' = FALSE
    /\ buzzer' = FALSE
    /\ pc' = "poll"
    /\ UNCHANGED <<prog, exc, cleaned, decision, gatevars, clfvars, estvars, mdvars, fnvars>>

\* Ctrl-C at any point of the loop: except KeyboardInterrupt, finally
KeyboardInterrupt ==
    /\ pc # "exited"
    /\ Exit("KeyboardInterrupt")
    /\ UNCHANGED <<prog, gatevars, clfvars, estvars, mdvars, fnvars>>

Init ==
    /\ prog \in LoopProgs
    /\ LoopStart
    /\ md_prog = "main"
    /\ MeasureIdle
    /\ FnIdle

Next ==
    \/ Poll
    \/ Classify
    \/ MeasureAnimal
    \/ MeasureCar
    \/ DualFirst
    \/ DualSecond
    \/ UndefinedEstimator
    \/ AlertOff
    \/ KeyboardInterrupt

Spec == Init /\ [][Next]_vars

\* time.sleep(1.0) inside alert() returns
SpecFair == Spec /\ WF_vars(AlertOff)

\* ------------------------------------------------------------ properties
\* C1: in old.py, a cycle in which one of the four samples of
\* measure_speed_dual is None ends Indeterminate: no alert() and no "Safe".
C1_InvalidSampleIndeterminate ==
    (prog = "old" /\ Len(dual) = 4 /\ (\E i \in 1..4 : dual[i] = None))
    => decision \notin {"Alert", "Safe"}

\* C2: the loop ends only by KeyboardInterrupt; no other exception leaves it.
C2_OnlyInterruptEndsLoop ==
    (pc = "exited") => exc = Some("KeyboardInterrupt")

\* C3: an animal speed <= 0 makes the cycle Indeterminate: time_animal is not
\* computed and neither Alert nor Safe results.
C3_NonApproachingAnimalIndeterminate ==
    (animal_speed # None /\ ~RatIsPos(animal_speed))
    => (time_animal = None /\ decision = "Indeterminate")

\* C4: a car speed <= 0 makes the cycle Indeterminate: time_car is not computed
\* and neither Alert nor Safe results.
C4_NonApproachingCarIndeterminate ==
    (car_speed # None /\ ~RatIsPos(car_speed))
    => (time_car = None /\ decision = "Indeterminate")

\* both estimates of the cycle are valid and both speeds are positive
ValidApproaching ==
    /\ prog \in {"main", "old"}
    /\ animal_speed # None /\ RatIsPos(animal_speed) /\ animal_distance # None
    /\ car_speed # None /\ RatIsPos(car_speed) /\ car_distance # None
    /\ prog = "old" =>
          /\ \A i \in 1..4 : dual[i] # None
          /\ Val(dual[1]) > Val(dual[3])
          /\ Val(dual[2]) > Val(dual[4])

\* (distance_animal - 0.06) / speed_animal and distance_car / speed_car
ReachAnimal == RatDiv(RatOfInt(Val(animal_distance) - CONVERGENCE_OFFSET), animal_speed)
ReachCar == RatDiv(RatOfInt(Val(car_distance)), car_speed)

\* C5: for valid estimates with both speeds > 0 the decision is Alert exactly
\* when the two times to reach differ by less than CRITICAL_TIME_DIFF, whichever
\* is the larger, and Safe otherwise; 0.06 m is taken off the animal's distance only.
C5_AlertIffWithinCriticalDiff ==
    ValidApproaching =>
        /\ decision \in {"Alert", "Safe"}
        /\ time_animal = Some(ReachAnimal)
        /\ time_car = Some(ReachCar)
        /\ (decision = "Alert") <=>
              /\ RatLess(RatSub(ReachAnimal, ReachCar), RatOfInt(CRITICAL_TIME_DIFF))
              /\ RatLess(RatSub(ReachCar, ReachAnimal), RatOfInt(CRITICAL_TIME_DIFF))

\* an Alert where the animal arrives well before the car
C5_AlertAnimalFirst ==
    /\ ValidApproaching /\ prog = "main" /\ decision = "Alert"
    /\ RatLess(ReachAnimal, ReachCar)

\* the cycle ran the velocity estimation
Estimating ==
    \/ pc \in {"estimate", "car", "dual_sleep", "alert"}
    \/ est_calls > 0
    \/ decision \in {"Alert", "Safe", "Indeterminate"}

\* C6: within an iteration, estimation (and any Alert/Safe) comes only after the
\* gate fired and the classifier, consulted exactly once, did not say no_animal;
\* without motion the classifier is not run; after a negative verdict no speed
\* is sampled and no alert is raised.
C6_GateThenClassifierThenEstimate ==
    /\ Estimating =>
          /\ motion_detected
          /\ clf_calls = 1
          /\ result # None
          /\ ~Contains(Val(result), NO_ANIMAL)
    /\ ~motion_detected => clf_calls = 0
    /\ clf_calls <= 1
    /\ (result # None /\ Contains(Val(result), NO_ANIMAL)) =>
          /\ est_calls = 0
          /\ decision = "NoAnimal"
          /\ ~led /\ ~buzzer

C6_AlertAfterPositiveVerdict ==
    /\ pc = "alert" /\ motion_detected /\ clf_calls = 1 /\ est_calls > 0

\* C7: the loop's verdict is negative exactly when the classifier decided
\* no-animal (probability <= 0.5), for each loop and the script it spawns.
C7_VerdictMatchesClassifier ==
    (clf_outcome # None /\ Val(clf_outcome).kind = "inference")
    => ((decision = "NoAnimal") <=> ~IsAnimal(Val(clf_outcome).prob))

\* C8: a failed classifier call is "no detection": no estimation, no alert, and
\* the loop goes on to the next poll (it can still be interrupted by the user).
C8_ClassifierFailureSkipsCycle ==
    (clf_outcome # None /\ Val(clf_outcome).kind # "inference")
    => /\ result = None
       /\ decision = "ClassifierError"
       /\ est_calls = 0
       /\ ~led /\ ~buzzer
       /\ pc = "poll" \/ exc = Some("KeyboardInterrupt")

C8_FailureThenNextPoll ==
    /\ clf_outcome # None /\ Val(clf_outcome).kind = "camera_error"
    /\ pc = "poll" /\ decision = "ClassifierError"

\* C9: an echo that rises within ECHO_TIMEOUT and stays high for 0 < d <= ECHO_TIMEOUT
\* is returned as the distance d * 343 / 2, however late it rose.
C9_EchoInWindowMeasured ==
    (md_pc = "done" /\ echo_rise # Never /\ Val(echo_rise) <= ECHO_TIMEOUT
        /\ echo_high # Never /\ Val(echo_high) <= ECHO_TIMEOUT)
    => md_ret = Some(Dist(Val(echo_high)))

\* C9 holds of the variants with a deadline per edge (a case the claim covers)
C9_LateEchoGem ==
    /\ md_pc = "done" /\ md_prog = "gem"
    /\ echo_rise = Some(20) /\ echo_high = Some(20)
    /\ md_ret = Some(Dist(20))

RiseMissed == echo_rise = Never \/ Val(echo_rise) > ECHO_TIMEOUT + 1
FallMissed == echo_rise # Never /\ (echo_high = Never \/ Val(echo_high) > ECHO_TIMEOUT + 1)

C11_DistanceWithinRange ==
    (md_pc = "done" /\ md_ret # None)
    => (0 < Val(md_ret) /\ Val(md_ret) <= Dist(ECHO_TIMEOUT))

\* C12: in the two-point estimator, a channel whose first or second sample is
\* None gets an invalid estimate: neither a numeric speed nor a numeric distance.
C12_InvalidSampleInvalidEstimate ==
    (tp_pc = "returned") =>
        \A ch \in 1..2 :
            (tp_samples[ch] = None \/ tp_samples[ch + 2] = None)
            => (tp_ret[ch] = None /\ tp_ret[ch + 2] = None)

\* C13: no exception leaves the measurement primitives: for every echo
\* behaviour and every pair of clock readings, equal readings included, the
\* estimator returns (with an invalid estimate for a time span <= 0) and does
\* not end in a division error.
C13_NoExceptionFromEstimators ==
    /\ tp_pc # "raised"
    /\ md_pc # "raised"

\* all six samples are valid and change by the same amount from each to the next
LinearInput ==
    /\ rg_gap > 0
    /\ \A i \in 1..NSAMPLES : rg_ds[i] # None
    /\ \A i \in 2..(NSAMPLES - 1) :
          Val(rg_ds[i + 1]) - Val(rg_ds[i]) = Val(rg_ds[2]) - Val(rg_ds[1])

\* C14: for six evenly spaced samples changing linearly at rate r, the median
\* smoothing leaves the samples as they are, the fitted slope has magnitude |r|
\* and the reported distance is the last sample.
C14_LinearInputReproduced ==
    (rg_pc = "returned" /\ LinearInput) =>
        /\ MedianSmooth([i \in 1..NSAMPLES |-> Val(rg_ds[i])])
              = [i \in 1..NSAMPLES |-> Val(rg_ds[i])]
        /\ RatAbs(rg_ret[1]) = RatAbs(Rat(Val(rg_ds[2]) - Val(rg_ds[1]), rg_gap))
        /\ rg_ret[2] = rg_ds[NSAMPLES]

\* the six samples are valid, taken at advancing clock readings, and each is
\* smaller (Approaching) or larger (Receding) than the one before
AllSampled == \A i \in 1..NSAMPLES : rg_ds[i] # None
Approaching ==
    /\ AllSampled /\ rg_gap > 0
    /\ \A i \in 1..(NSAMPLES - 1) : Val(rg_ds[i + 1]) < Val(rg_ds[i])
Receding ==
    /\ AllSampled /\ rg_gap > 0
    /\ \A i \in 1..(NSAMPLES - 1) : Val(rg_ds[i + 1]) > Val(rg_ds[i])

\* C15: the regression speed is positive when the distances decrease
\* (approaching) and negative when they increase (receding), so that the loop's
\* animal_speed < 0 test singles out the receding animal.
C15_PositiveWhenApproaching ==
    (rg_pc = "returned") =>
        /\ Approaching => RatIsPos(rg_ret[1])
        /\ Receding => RatIsNeg(rg_ret[1])

\* C16: when all samples carry the same timestamp (n * sum(x^2) - sum(x)^2 = 0)
\* measure_speed returns an invalid estimate, not a speed of 0 with a distance
\* the caller can use.
C16_DegenerateTimeInvalid ==
    (rg_pc = "returned" /\ AllSampled /\ rg_gap = 0) => rg_ret[2] = None

\* the time between the two clock readings the estimator takes
MeasuredSpan ==
    IF tp_prog \in {"old", "speedtest"} THEN tp_slept + tp_second ELSE tp_slept

\* C17: for two valid samples d1 then d2 of a channel and a measured time e > 0
\* between the two clock readings, the two-point estimator returns the speed
\* (d1 - d2) / e, positive when the target approaches, and the distance d2; e
\* is the measured time, not the delay argument.
C17_TwoPointSpeedFromMeasuredTime ==
    (tp_pc = "returned") =>
        \A ch \in 1..2 :
            (tp_samples[ch] # None /\ tp_samples[ch + 2] # None /\ MeasuredSpan > 0)
            => /\ tp_ret[ch] = Rat(Val(tp_samples[ch]) - Val(tp_samples[ch + 2]), MeasuredSpan)
               /\ tp_ret[ch + 2] = tp_samples[ch + 2]
               /\ Val(tp_samples[ch]) > Val(tp_samples[ch + 2]) => RatIsPos(tp_ret[ch])
               /\ Val(tp_samples[ch]) < Val(tp_samples[ch + 2]) => RatIsNeg(tp_ret[ch])

\* 5.00 m then 4.10 m with delay 0.9 s and 1.0 s measured: 0.9 m/s, 4.10 m
C17_MeasuredNotNominal ==
    /\ tp_pc = "returned" /\ tp_prog = "gem"
    /\ tp_samples[2] = Some(20000) /\ tp_samples[4] = Some(16400)
    /\ tp_delay = 900 /\ tp_slept = 1000
    /\ tp_ret[2] = Rat(18, 5)
    /\ tp_ret[4] = Some(16400)

\* C18: a poll signals motion exactly when the previous and the current reading
\* are both valid, differ by more than MOTION_THRESHOLD (0.005 m) and the
\* current one is below MOTION_RANGE (0.5 m); so the first poll does not
\* trigger, nor does an invalid reading, nor a current reading beyond 0.5 m.
C18_MotionIffNearAndMoved ==
    (gt_polls > 0) =>
        /\ gt_motion <=>
              /\ gt_before # None
              /\ gt_d1 # None
              /\ Abs(Val(gt_d1) - Val(gt_before)) > MOTION_THRESHOLD
              /\ Val(gt_d1) < MOTION_RANGE
        /\ (gt_polls = 1) => ~gt_motion

\* C19: in every iteration prev_d1 becomes that iteration's reading d1, valid or
\* not, whether or not motion fired and whichever way the iteration goes on;
\* nothing but the poll step of an iteration changes it.
C19_PreviousIsLastReading ==
    /\ []((decision # "NoCycle") => prev_d1 = d1)
    /\ [][(prev_d1' # prev_d1 \/ d1' # d1) => (pc = "poll" /\ decision' \in {"Pending", "NoMotion"})]_vars

\* a valid reading stored by an iteration that did not detect motion
C19_StoredWithoutMotion ==
    /\ decision = "NoMotion" /\ ~motion_detected
    /\ d1 = Some(Dist(2)) /\ prev_d1 = Some(Dist(2))

\* C20: however the loop is left (Ctrl-C at any point of a cycle, also during
\* the alert pulse or a measurement, or any other exception) GPIO.cleanup() has
\* run when the process exits and the outputs are released; it runs only then.
C20_CleanupOnEveryExit ==
    /\ (pc = "exited") => (cleaned /\ ~led /\ ~buzzer)
    /\ cleaned => (pc = "exited" /\ exc # None)

\* old.py interrupted inside measure_speed_dual, during the sleep between the
\* two rounds of measurements, when LED and buzzer are high
C20_InterruptedMidMeasurement ==
    /\ prog = "old" /\ pc = "exited" /\ exc = Some("KeyboardInterrupt")
    /\ Len(dual) = 2
    /\ cleaned /\ ~led /\ ~buzzer

\* C21: the alert is a pulse: once alert() has raised the outputs they are
\* lowered again before the call is over, so both outputs are low whenever an
\* iteration starts polling.
C21_AlertIsPulse ==
    /\ []((pc = "poll") => (~led /\ ~buzzer))
    /\ ((pc = "alert") ~> (~led /\ ~buzzer))

\* an iteration that alerted is over and the next poll finds the outputs low
C21_AfterPulse ==
    /\ prog = "main" /\ pc = "poll" /\ decision = "Alert"
    /\ ~led /\ ~buzzer

\* C22: LED_PIN or BUZZER_PIN is high only after the Alert decision of the
\* current cycle: not while measure_speed_dual samples, not on Safe or
\* Indeterminate.
C22_HighOnlyOnAlert ==
    (led \/ buzzer) => decision = "Alert"

====
